---- MODULE Spec2Model ----
(***************************************************************************)
(* Model of script.js: the phone-number batch processor.                   *)
(*                                                                         *)
(* Strings are sequences of one-character strings.  A file's content is    *)
(* kept as the sequence of its lines, i.e. as content.split('\n') returns  *)
(* it; the empty content "" is the one-line sequence << <<>> >>.           *)
(*                                                                         *)
(* JavaScript runs one task at a time.  A call from a click handler and a  *)
(* timer callback each run to completion, together with the promise        *)
(* continuations (microtasks) they trigger, so that each is one action     *)
(* here.  The only place where processInBatches is suspended across tasks  *)
(* is the setTimeout of line 166.  The functions are callable whatever the *)
(* page shows, so no action is guarded by the visibility of a button.      *)
(***************************************************************************)
EXTENDS Integers, Sequences, FiniteSets, Bags, TLC

(***************************************************************************)
(* Bounds of the model.                                                    *)
(***************************************************************************)
\* the number of processInBatches invocations suspended at the same time
MaxLoops == 2
\* the largest batchIndex followed when totalBatches is Infinity
MaxBatchIndex == 1

(***************************************************************************)
(* Characters and the input lines used.                                    *)
(***************************************************************************)
Digit == {"0", "1", "2", "3", "4", "5", "6", "7", "8", "9"}
WhiteSpace == {" ", "\t", "\r"}

LineMN == <<"6", "1", "2", "5", "5", "4", "4", "5", "5", "6">>
LinePlusNY == <<"+", "1", " ", "2", "1", "2", "5", "5", "5", "0", "1", "4", "2">>
LineCA == <<"3", "1", "0", "-", "5", "5", "5", "0", "1", "9", "9", "\r">>
LineShort == <<"1", "2", "3">>
LineBlank == <<" ">>
LineEmpty == <<>>

\* contents a file can have, as the sequences of their lines
FileA == <<LineShort, LineBlank>>
FileB == <<LinePlusNY, LineCA>>
FileEmpty == <<LineEmpty>>
Contents == {FileA, FileB, FileEmpty}

\* a File object: whether its name ends with '.txt', and its text
Files == [txt : {TRUE}, content : Contents] \cup {[txt |-> FALSE, content |-> FileA]}

(***************************************************************************)
(* JavaScript numbers as far as batchSize and totalBatches need them.      *)
(***************************************************************************)
Num(n) == [k |-> "num", v |-> n]
NaN == [k |-> "nan", v |-> 0]
Infinity == [k |-> "inf", v |-> 0]

\* the options object built by startProcessing from the form
Opt(removePlusOne, groupByState, batchSize) ==
    [removePlusOne |-> removePlusOne, filterInvalid |-> TRUE,
     groupByState |-> groupByState, batchSize |-> batchSize]

\* the settings of the form used; batchSize is parseInt(batchSize.value)
Options == {Opt(TRUE, TRUE, Num(1)), Opt(FALSE, FALSE, Num(2)),
            Opt(TRUE, TRUE, Num(0)), Opt(FALSE, FALSE, Num(-1)),
            Opt(TRUE, FALSE, NaN)}

\* Math.ceil(len / batchSize) for a length len >= 1
CeilDiv(len, batchSize) ==
    IF batchSize.k = "nan" THEN NaN
    ELSE IF batchSize.v = 0 THEN Infinity
    ELSE IF batchSize.v > 0 THEN Num((len + batchSize.v - 1) \div batchSize.v)
    ELSE Num(0 - (len \div (0 - batchSize.v)))

\* i < t for an integer i and a JavaScript number t
JSLess(i, t) ==
    CASE t.k = "num" -> i < t.v
      [] t.k = "inf" -> TRUE
      [] t.k = "nan" -> FALSE

Min(a, b) == IF a < b THEN a ELSE b

(***************************************************************************)
(* String helpers.                                                         *)
(***************************************************************************)
\* s.substring(from)
SubstringFrom(s, from) == SubSeq(s, from + 1, Len(s))
\* s.substring(from, to)
Substring(s, from, to) == SubSeq(s, from + 1, Min(to, Len(s)))

RECURSIVE TrimStart(_)
TrimStart(s) ==
    IF s # <<>> /\ Head(s) \in WhiteSpace THEN TrimStart(Tail(s)) ELSE s

RECURSIVE TrimEnd(_)
TrimEnd(s) ==
    IF s # <<>> /\ s[Len(s)] \in WhiteSpace
    THEN TrimEnd(SubSeq(s, 1, Len(s) - 1)) ELSE s

\* s.trim()
Trim(s) == TrimEnd(TrimStart(s))

(***************************************************************************)
(* The normalizer and the validator.                                       *)
(***************************************************************************)
IsDigit(c) == c \in Digit

\* cleanPhoneNumber without the cut to the last 10 digits
cleanPhoneNumberWithoutTruncation(raw, removePlusOne) ==
    LET digits == SelectSeq(raw, IsDigit)
    IN IF removePlusOne /\ Len(digits) = 11 /\ Head(digits) = "1"
       THEN SubstringFrom(digits, 1) ELSE digits

cleanPhoneNumber(number, removePlusOne) ==
    LET digits == SelectSeq(number, IsDigit)
        stripped == IF removePlusOne /\ Len(digits) = 11 /\ Head(digits) = "1"
                    THEN SubstringFrom(digits, 1) ELSE digits
    IN IF Len(stripped) > 10
       THEN SubstringFrom(stripped, Len(stripped) - 10) ELSE stripped

\* the area-code directory; its source is not in script.js
isValidAreaCode(areaCode) ==
    Len(areaCode) = 3 /\ areaCode[1] \notin {"0", "1"}

getStateFromAreaCode(areaCode) ==
    CASE areaCode = <<"6", "1", "2">> -> "Minnesota"
      [] areaCode = <<"2", "1", "2">> -> "New York"
      [] areaCode = <<"3", "1", "0">> -> "California"
      [] OTHER -> "Unknown"

\* /^(\d)\1{9}$/
AllSameDigits(number) ==
    Len(number) = 10 /\ \A i \in 1..10 : number[i] \in Digit /\ number[i] = number[1]

\* /^1234567890$/
Sequential(number) ==
    number = <<"1", "2", "3", "4", "5", "6", "7", "8", "9", "0">>

\* /^(\d{3})\1{2}$/ : three digits followed by two copies of them, 9 characters
RepeatedPattern(number) ==
    /\ Len(number) = 9
    /\ \A i \in 1..9 : number[i] \in Digit
    /\ \A i \in 1..3 : number[i + 3] = number[i] /\ number[i + 6] = number[i]

isValidUSNumber(number) ==
    IF Len(number) # 10 THEN FALSE
    ELSE IF number[1] = "0" \/ number[1] = "1" THEN FALSE
    ELSE IF ~isValidAreaCode(Substring(number, 0, 3)) THEN FALSE
    ELSE IF Substring(number, 3, 6)[1] = "0" \/ Substring(number, 3, 6)[1] = "1" THEN FALSE
    ELSE IF AllSameDigits(number) \/ Sequential(number) \/ RepeatedPattern(number) THEN FALSE
    ELSE TRUE

(***************************************************************************)
(* The aggregate and the classification of one line.                       *)
(***************************************************************************)
\* the object resetProcessingState assigns to processedResults
EmptyResults ==
    [valid |-> <<>>, invalid |-> <<>>, byState |-> <<>>,
     stats |-> [total |-> 0, valid |-> 0, invalid |-> 0, states |-> {}]]

\* byState is an object: its keys in insertion order, each with its array
HasState(byState, state) == \E i \in 1..Len(byState) : byState[i].state = state

\* PushByState putting the record in place of the state's array
PushByStateReplacing(byState, state, result) ==
    IF HasState(byState, state)
    THEN [i \in 1..Len(byState) |->
            IF byState[i].state = state
            THEN [byState[i] EXCEPT !.numbers = <<result>>]
            ELSE byState[i]]
    ELSE Append(byState, [state |-> state, numbers |-> <<result>>])

PushByState(byState, state, result) ==
    IF HasState(byState, state)
    THEN [i \in 1..Len(byState) |->
            IF byState[i].state = state
            THEN [byState[i] EXCEPT !.numbers = Append(@, result)]
            ELSE byState[i]]
    ELSE Append(byState, [state |-> state, numbers |-> <<result>>])

\* processSingleNumber without processedResults.stats.invalid++
processSingleNumberWithoutInvalidCount(results, rawNumber, options) ==
    LET cleaned == cleanPhoneNumber(rawNumber, options.removePlusOne)
    IN IF isValidUSNumber(cleaned)
       THEN LET areaCode == Substring(cleaned, 0, 3)
                state == getStateFromAreaCode(areaCode)
                result == [original |-> rawNumber, cleaned |-> cleaned,
                           areaCode |-> areaCode, state |-> state,
                           status |-> "valid"]
            IN [results EXCEPT
                  !.valid = Append(@, result),
                  !.stats.valid = @ + 1,
                  !.stats.states = @ \cup {state},
                  !.byState = IF options.groupByState
                              THEN PushByState(@, state, result) ELSE @]
       ELSE [results EXCEPT
               !.invalid = Append(@, [original |-> rawNumber, cleaned |-> cleaned,
                                      status |-> "invalid"])]

processSingleNumber(results, rawNumber, options) ==
    LET cleaned == cleanPhoneNumber(rawNumber, options.removePlusOne)
    IN IF isValidUSNumber(cleaned)
       THEN LET areaCode == Substring(cleaned, 0, 3)
                state == getStateFromAreaCode(areaCode)
                result == [original |-> rawNumber, cleaned |-> cleaned,
                           areaCode |-> areaCode, state |-> state,
                           status |-> "valid"]
            IN [results EXCEPT
                  !.valid = Append(@, result),
                  !.stats.valid = @ + 1,
                  !.stats.states = @ \cup {state},
                  !.byState = IF options.groupByState
                              THEN PushByState(@, state, result) ELSE @]
       ELSE [results EXCEPT
               !.invalid = Append(@, [original |-> rawNumber, cleaned |-> cleaned,
                                      status |-> "invalid"]),
               !.stats.invalid = @ + 1]

(***************************************************************************)
(* One batch.                                                              *)
(***************************************************************************)
\* BatchSlice with an endIdx one line further
BatchSliceOneMore(lines, batchIndex, batchSize) ==
    LET startIdx == batchIndex * batchSize
        endIdx == Min(startIdx + batchSize + 1, Len(lines))
    IN SubSeq(lines, startIdx + 1, endIdx)

\* lines.slice(startIdx, endIdx) of processInBatches, batchSize an integer
BatchSlice(lines, batchIndex, batchSize) ==
    LET startIdx == batchIndex * batchSize
        endIdx == Min(startIdx + batchSize, Len(lines))
    IN SubSeq(lines, startIdx + 1, endIdx)

\* processBatch counting a line before the test for a blank one
RECURSIVE processBatchCountingBlanks(_, _, _, _)
processBatchCountingBlanks(st, batch, options, cancelled) ==
    IF batch = <<>> THEN st
    ELSE IF cancelled THEN st
    ELSE LET line == Trim(Head(batch))
         IN IF line = <<>>
            THEN processBatchCountingBlanks(
                     [st EXCEPT !.skipped = @ + 1, !.scanned = @ + 1,
                                !.count = @ + 1],
                     Tail(batch), options, cancelled)
            ELSE processBatchCountingBlanks(
                     [st EXCEPT !.results = processSingleNumber(@, line, options),
                                !.count = @ + 1, !.scanned = @ + 1],
                     Tail(batch), options, cancelled)

\* st holds processedResults, processedCount and, as history of the
\* caller's run, the number of lines it has passed the cancellation test
\* with (scanned) and the number of those it has skipped as blank
RECURSIVE processBatch(_, _, _, _)
processBatch(st, batch, options, cancelled) ==
    IF batch = <<>> THEN st
    ELSE IF cancelled THEN st
    ELSE LET line == Trim(Head(batch))
         IN IF line = <<>>
            THEN processBatch([st EXCEPT !.skipped = @ + 1, !.scanned = @ + 1],
                              Tail(batch), options, cancelled)
            ELSE processBatch([st EXCEPT
                                 !.results = processSingleNumber(@, line, options),
                                 !.count = @ + 1, !.scanned = @ + 1],
                              Tail(batch), options, cancelled)

(***************************************************************************)
(* The progress report.                                                    *)
(***************************************************************************)
\* ((batchIndex + 1) / totalBatches) * 100, kept as the fraction num / den
\* of 100; a finite number divided by Infinity is 0
Progress(batchIndex, totalBatches) ==
    IF totalBatches.k = "inf" THEN [num |-> 0, den |-> 1]
    ELSE [num |-> batchIndex + 1, den |-> totalBatches.v]

\* the time since startTime that updateProgressUI measures: none or some
Elapsed == {"zero", "positive"}

\* (total - processed) / (processed / elapsed) in floating point, as the
\* kind of number it yields
Remaining(total, processed, elapsed) ==
    LET rate == IF elapsed = "zero"
                THEN (IF processed = 0 THEN "NaN" ELSE "Infinity")
                ELSE (IF processed = 0 THEN "zero" ELSE "finite")
    IN CASE rate = "NaN" -> "NaN"
         [] rate = "Infinity" -> "finite"
         [] rate = "finite" -> "finite"
         [] rate = "zero" -> IF total - processed > 0 THEN "Infinity"
                             ELSE IF total - processed < 0 THEN "-Infinity"
                             ELSE "NaN"

\* what updateProgressUI(progress, processed) puts on the page, reading
\* processedResults (results): the progress bar, #processedCount, #validCount
\* and the seconds remaining of #progressStatus
updateProgressUI(results, progress, processed, elapsed) ==
    [made |-> TRUE, progress |-> progress, processed |-> processed,
     validCount |-> results.stats.valid,
     remaining |-> Remaining(results.stats.total, processed, elapsed)]

NoReport ==
    [made |-> FALSE, progress |-> [num |-> 0, den |-> 1], processed |-> 0,
     validCount |-> 0, remaining |-> "finite"]

(***************************************************************************)
(* The summary report.                                                     *)
(***************************************************************************)
\* InsertByCount putting the entry before the entries with as many numbers
RECURSIVE InsertByCountBeforeEqual(_, _)
InsertByCountBeforeEqual(sorted, entry) ==
    IF sorted = <<>> THEN <<entry>>
    ELSE IF Len(Head(sorted).numbers) > Len(entry.numbers)
    THEN <<Head(sorted)>> \o InsertByCountBeforeEqual(Tail(sorted), entry)
    ELSE <<entry>> \o sorted

\* entry put into a list sorted by (a, b) => b[1].length - a[1].length: the
\* sort is stable, so it goes behind the entries with as many numbers
RECURSIVE InsertByCount(_, _)
InsertByCount(sorted, entry) ==
    IF sorted = <<>> THEN <<entry>>
    ELSE IF Len(Head(sorted).numbers) >= Len(entry.numbers)
    THEN <<Head(sorted)>> \o InsertByCount(Tail(sorted), entry)
    ELSE <<entry>> \o sorted

\* Object.entries(byState).sort(...): the entries in insertion order, sorted
RECURSIVE SortByCount(_)
SortByCount(entries) ==
    IF entries = <<>> THEN <<>>
    ELSE InsertByCount(SortByCount(SubSeq(entries, 1, Len(entries) - 1)),
                       entries[Len(entries)])

\* (length / valid * 100).toFixed(1), in tenths of a percent
Percentage(length, valid) ==
    IF valid = 0 THEN Infinity
    ELSE Num((length * 2000 + valid) \div (2 * valid))

\* the numbers of the header and the lines of the distribution by state
generateSummaryReport(results) ==
    LET states == SortByCount(results.byState)
    IN [total |-> results.stats.total,
        valid |-> results.stats.valid,
        invalid |-> results.stats.invalid,
        states |-> Cardinality(results.stats.states),
        lines |-> [i \in 1..Len(states) |->
                     [state |-> states[i].state,
                      count |-> Len(states[i].numbers),
                      percentage |-> Percentage(Len(states[i].numbers),
                                                results.stats.valid)]]]

(***************************************************************************)
(* State.                                                                  *)
(***************************************************************************)
VARIABLES
    processingActive,     \* let processingActive
    processingCancelled,  \* let processingCancelled
    currentFileContent,   \* let currentFileContent: Null or the lines of the text
    processedResults,     \* let processedResults
    processedCount,       \* let processedCount
    loops,                \* the bag of processInBatches invocations waiting
                          \* at the setTimeout of line 166
    resultsSection,       \* TRUE when #resultsSection is shown (no 'd-none')
    progressUI,           \* what the last updateProgressUI put on the page
    event,                \* history: the task that ran last
    immediate,            \* history: a run cancelled before any timer ran
    grouping,             \* history: the values of options.groupByState that
                          \* valid records were ingested with since the reset
    number,               \* the argument of the functions applied on their own
    cleaned,              \* what cleanPhoneNumber returned for it, per flag
    verdict               \* what isValidUSNumber returned last, and for what

runVars == <<processingActive, processingCancelled, currentFileContent,
             processedResults, processedCount, loops, resultsSection,
             progressUI, event, immediate, grouping>>
pureVars == <<number, cleaned, verdict>>
vars == <<runVars, pureVars>>

Null == <<>>

\* !currentFileContent is false
Truthy(content) == content # Null /\ content # <<LineEmpty>>

\* a suspended processInBatches: its arguments and locals, and as history
\* whether cancelProcessing was called since it started (cancelSeen), whether
\* it is the run started last (newest), the lines it scanned, the blank
\* lines it skipped and whether the report on the page is its own
NewLoop(lines, options, st) ==
    [lines |-> lines, options |-> options,
     totalBatches |-> CeilDiv(Len(lines), options.batchSize),
     batchIndex |-> 0, cancelSeen |-> FALSE, newest |-> TRUE,
     scanned |-> st.scanned, skipped |-> st.skipped, reportedLast |-> TRUE]

NoRun ==
    [lines |-> <<>>,
     options |-> Opt(FALSE, FALSE, NaN),
     totalBatches |-> NaN, batchIndex |-> 0, cancelSeen |-> FALSE,
     newest |-> FALSE, scanned |-> 0, skipped |-> 0, reportedLast |-> FALSE]

NoImmediate == [phase |-> "none", lines |-> <<>>, batchSize |-> NaN]

\* a task of run that called updateProgressUI; again tells that the report
\* it replaced on the page was of the same run
Reported(op, run, again) ==
    [op |-> op, finished |-> FALSE, run |-> run, reported |-> TRUE,
     again |-> again]

\* a task that did not call updateProgressUI
Event(op, finished, run) ==
    [op |-> op, finished |-> finished, run |-> run, reported |-> FALSE,
     again |-> FALSE]

\* the loops that are waiting, and how many they are
Live == BagToSet(loops)
LiveCount == BagCardinality(loops)

\* a result of one of the functions applied on their own, or none yet
None == [set |-> FALSE, arg |-> <<>>, value |-> <<>>]
NotCleaned == [flag \in BOOLEAN |-> None]

RunInit ==
    /\ processingActive = FALSE
    /\ processingCancelled = FALSE
    /\ currentFileContent = Null
    /\ processedResults = EmptyResults
    /\ processedCount = 0
    /\ loops = EmptyBag
    /\ resultsSection = FALSE
    /\ progressUI = NoReport
    /\ event = Event("load", FALSE, NoRun)
    /\ immediate = NoImmediate
    /\ grouping = {}

Init ==
    /\ RunInit
    /\ number = <<>>
    /\ cleaned = NotCleaned
    /\ verdict = None

(***************************************************************************)
(* File selection.                                                         *)
(***************************************************************************)
\* handleFile(file) and the onload of the FileReader it starts: a file whose
\* name does not end with '.txt' is refused, the text of another becomes
\* currentFileContent.  handleFile itself changes nothing of the state kept
\* here, so the action stands for the moment onload runs.
handleFile(file) ==
    /\ currentFileContent' = IF file.txt THEN file.content ELSE currentFileContent
    /\ event' = Event("handleFile", FALSE, NoRun)
    /\ UNCHANGED <<processingActive, processingCancelled, processedResults,
                   processedCount, loops, resultsSection, progressUI,
                   immediate, grouping>>
    /\ UNCHANGED pureVars

(***************************************************************************)
(* Starting, resuming and cancelling a run.                                *)
(***************************************************************************)
\* startProcessing without the test of processingActive
StartIgnoredWithoutActiveTest == ~Truthy(currentFileContent)

\* the early return of startProcessing
StartIgnored == ~Truthy(currentFileContent) \/ processingActive

\* the for-loop of processInBatches is entered at batchIndex
EntersBatch(batchIndex, totalBatches, cancelled) ==
    JSLess(batchIndex, totalBatches) /\ ~cancelled

\* history kept with a waiting loop: a later run has started and made its
\* report ("older"), another loop has made its report ("overwritten"), or
\* cancelProcessing was called ("cancelSeen")
Marked(l, mark) ==
    CASE mark = "older" -> [l EXCEPT !.newest = FALSE, !.reportedLast = FALSE]
      [] mark = "ended" -> [l EXCEPT !.newest = FALSE]
      [] mark = "overwritten" -> [l EXCEPT !.reportedLast = FALSE]
      [] mark = "cancelSeen" -> [l EXCEPT !.cancelSeen = TRUE]

\* the bag of the loops of ls, each of them marked
RECURSIVE MarkAll(_, _)
MarkAll(ls, mark) ==
    IF ls = EmptyBag THEN EmptyBag
    ELSE LET l == CHOOSE x \in BagToSet(ls) : TRUE
             one == [x \in {Marked(l, mark)} |-> ls[l]]
         IN one (+) MarkAll([x \in BagToSet(ls) \ {l} |-> ls[x]], mark)

\* the values of groupByState that valid records were ingested with, after
\* a batch that took the aggregate from before to after
Grouped(modes, before, after, options) ==
    IF after.stats.valid > before.stats.valid
    THEN modes \cup {options.groupByState} ELSE modes

\* batchIndex++ of the for-loop; when totalBatches is Infinity every batch is
\* the empty slice at 0, and the index is followed up to MaxBatchIndex only
NextIndex(run) ==
    IF run.totalBatches.k = "inf"
    THEN Min(run.batchIndex + 1, MaxBatchIndex)
    ELSE run.batchIndex + 1

\* startProcessing with the options the form holds; it runs processInBatches
\* up to its first setTimeout, or up to finishProcessing
startProcessing(options, elapsed) ==
    /\ UNCHANGED pureVars
    /\ IF StartIgnored
       THEN /\ event' = Event("startProcessing", FALSE, NoRun)
            /\ UNCHANGED <<processingActive, processingCancelled,
                           currentFileContent, processedResults, processedCount,
                           loops, resultsSection, progressUI, immediate,
                           grouping>>
       ELSE LET lines == currentFileContent
                reset == [EmptyResults EXCEPT !.stats.total = Len(lines)]
                totalBatches == CeilDiv(Len(lines), options.batchSize)
                st0 == [results |-> reset, count |-> 0, scanned |-> 0,
                        skipped |-> 0]
            IN /\ processingCancelled' = FALSE
               /\ UNCHANGED currentFileContent
               /\ IF EntersBatch(0, totalBatches, FALSE)
                  THEN LET st == processBatch(
                                   st0, BatchSlice(lines, 0, options.batchSize.v),
                                   options, FALSE)
                           run == NewLoop(lines, options, st)
                       IN /\ LiveCount < MaxLoops
                          /\ processingActive' = TRUE
                          /\ processedResults' = st.results
                          /\ processedCount' = st.count
                          /\ grouping' = Grouped({}, reset, st.results, options)
                          /\ loops' = MarkAll(loops, "older") (+) SetToBag({run})
                          /\ resultsSection' = FALSE
                          /\ progressUI' = updateProgressUI(st.results,
                                               Progress(0, totalBatches),
                                               st.count, elapsed)
                          /\ event' = Reported("startProcessing", run, FALSE)
                          /\ immediate' = [phase |-> "fresh", lines |-> lines,
                                           batchSize |-> options.batchSize]
                  ELSE LET run == NewLoop(lines, options, st0)
                       IN /\ processingActive' = FALSE
                          /\ processedResults' = reset
                          /\ processedCount' = 0
                          /\ grouping' = {}
                          /\ loops' = MarkAll(loops, "ended")
                          /\ resultsSection' = TRUE
                          /\ UNCHANGED progressUI
                          /\ event' = Event("startProcessing", TRUE, run)
                          /\ immediate' = NoImmediate

\* the timer of line 166 fires for the waiting loop run: the loop goes on to
\* its next setTimeout, or leaves the for-loop and calls finishProcessing
timerFires(run, elapsed) ==
    LET batchIndex == NextIndex(run)
    IN /\ UNCHANGED pureVars
       /\ UNCHANGED <<processingCancelled, currentFileContent>>
       /\ immediate' = IF immediate.phase = "fresh" THEN NoImmediate ELSE immediate
       /\ IF EntersBatch(batchIndex, run.totalBatches, processingCancelled)
          THEN LET st == processBatch(
                           [results |-> processedResults, count |-> processedCount,
                            scanned |-> run.scanned, skipped |-> run.skipped],
                           BatchSlice(run.lines, batchIndex, run.options.batchSize.v),
                           run.options, processingCancelled)
                   next == [run EXCEPT !.batchIndex = batchIndex,
                                       !.scanned = st.scanned,
                                       !.skipped = st.skipped,
                                       !.reportedLast = TRUE]
               IN /\ processedResults' = st.results
                  /\ processedCount' = st.count
                  /\ grouping' = Grouped(grouping, processedResults, st.results,
                                         run.options)
                  /\ loops' = MarkAll(loops (-) SetToBag({run}), "overwritten")
                                (+) SetToBag({next})
                  /\ progressUI' = updateProgressUI(st.results,
                                       Progress(batchIndex, run.totalBatches),
                                       st.count, elapsed)
                  /\ event' = Reported("timer", next, run.reportedLast)
                  /\ UNCHANGED <<processingActive, resultsSection>>
          ELSE /\ processingActive' = FALSE
               /\ resultsSection' = TRUE
               /\ loops' = loops (-) SetToBag({run})
               /\ event' = Event("timer", TRUE, [run EXCEPT !.batchIndex = batchIndex])
               /\ UNCHANGED <<processedResults, processedCount, grouping,
                              progressUI>>

cancelProcessing ==
    /\ processingCancelled' = TRUE
    /\ processingActive' = FALSE
    /\ loops' = MarkAll(loops, "cancelSeen")
    /\ event' = Event("cancelProcessing", FALSE, NoRun)
    /\ immediate' = IF immediate.phase = "fresh"
                    THEN [immediate EXCEPT !.phase = "cancelled"]
                    ELSE immediate
    /\ UNCHANGED <<currentFileContent, processedResults, processedCount,
                   resultsSection, progressUI, grouping>>
    /\ UNCHANGED pureVars

Next ==
    \/ \E file \in Files : handleFile(file)
    \/ \E options \in Options, elapsed \in Elapsed :
          startProcessing(options, elapsed)
    \/ \E run \in Live, elapsed \in Elapsed : timerFires(run, elapsed)
    \/ cancelProcessing

Spec == Init /\ [][Next]_vars

\* a timer that is due does fire: the callback of a waiting loop is run
\* after its delay of 0 ms whatever the user does or does not do
FairSpec ==
    Spec /\ WF_vars(\E run \in Live, elapsed \in Elapsed : timerFires(run, elapsed))

(***************************************************************************)
(* The normalizer and the validator applied on their own.                  *)
(***************************************************************************)
\* the most digits "1" written in front of a number
MaxPad == 2

Pad(k) == [i \in 1..k |-> "1"]

LineTriplets == <<"6", "1", "2", "6", "1", "2", "6", "1", "2", "5">>
LineTriplets9 == <<"6", "1", "2", "6", "1", "2", "6", "1", "2">>
LineSame == <<"2", "2", "2", "2", "2", "2", "2", "2", "2", "2">>
LineSequential == <<"1", "2", "3", "4", "5", "6", "7", "8", "9", "0">>
LineFormatted == <<"(", "6", "1", "2", ")", " ", "5", "5", "4", "-", "4", "5", "5", "6">>
LineLetters == <<"a", "b", "c">>

Bodies == {LineMN, LineCA, LineShort, LineBlank, LineEmpty, LineTriplets,
           LineTriplets9, LineSame, LineSequential, LineFormatted, LineLetters}

\* the raw strings the functions are applied to
RawNumbers ==
    {Pad(k) \o body : k \in 0..MaxPad, body \in Bodies}
        \cup {<<"+">> \o Pad(k) \o <<" ">> \o body :
                  k \in 1..MaxPad, body \in Bodies}

InitPure ==
    /\ RunInit
    /\ number \in RawNumbers
    /\ cleaned = NotCleaned
    /\ verdict = None

\* cleanPhoneNumber(number, removePlusOne) is called and its result kept
CallCleanPhoneNumber(removePlusOne) ==
    /\ cleaned' = [cleaned EXCEPT ![removePlusOne] =
                      [set |-> TRUE, arg |-> number,
                       value |-> cleanPhoneNumber(number, removePlusOne)]]
    /\ UNCHANGED <<number, verdict>>
    /\ UNCHANGED runVars

\* isValidUSNumber is called with a result of cleanPhoneNumber, as
\* processSingleNumber calls it
CallIsValidUSNumber(removePlusOne) ==
    /\ cleaned[removePlusOne].set
    /\ verdict' = [set |-> TRUE, arg |-> cleaned[removePlusOne].value,
                   value |-> isValidUSNumber(cleaned[removePlusOne].value)]
    /\ UNCHANGED <<number, cleaned>>
    /\ UNCHANGED runVars

NextPure ==
    \/ \E removePlusOne \in BOOLEAN : CallCleanPhoneNumber(removePlusOne)
    \/ \E removePlusOne \in BOOLEAN : CallIsValidUSNumber(removePlusOne)

SpecPure == InitPure /\ [][NextPure]_vars

(***************************************************************************)
(* Properties.                                                             *)
(***************************************************************************)
Positive(batchSize) == batchSize.k = "num" /\ batchSize.v > 0
NonPositive(batchSize) == batchSize.k = "num" /\ batchSize.v <= 0

\* the task that ran last started a run (startProcessing did not return early)
RunStarted == event.op = "startProcessing" /\ event.run # NoRun

\* the trimmed lines of an input
TrimmedLines(lines) == {Trim(lines[i]) : i \in 1..Len(lines)}

\* every record of processedResults was made from a line of lines
RecordsFrom(lines) ==
    /\ \A i \in 1..Len(processedResults.valid) :
          processedResults.valid[i].original \in TrimmedLines(lines)
    /\ \A i \in 1..Len(processedResults.invalid) :
          processedResults.invalid[i].original \in TrimmedLines(lines)

\* the number of lines of s that are not blank
RECURSIVE NonBlankCount(_)
NonBlankCount(s) ==
    IF s = <<>> THEN 0
    ELSE (IF Trim(Head(s)) = <<>> THEN 0 ELSE 1) + NonBlankCount(Tail(s))

\* C1: at most one batch loop is live at a time, also when cancelProcessing
\* is followed by startProcessing before the cancelled loop has resumed.
C1_AtMostOneLoopLive == LiveCount <= 1

\* C2: a run during which cancelProcessing was called never executes
\* finishProcessing; completion is reported only when the chunks were
\* exhausted without cancellation.
C2_CancelledNeverCompletes ==
    event.finished =>
        /\ ~event.run.cancelSeen
        /\ ~JSLess(event.run.batchIndex, event.run.totalBatches)

\* C3: cancelProcessing keeps the records accumulated so far, and a run
\* during which cancelProcessing was called ingests no further record,
\* whatever is called afterwards.
C3_NoIngestionAfterCancel ==
    [][/\ event'.op = "cancelProcessing"
          => UNCHANGED <<processedResults, processedCount>>
       /\ (event'.op = "timer" /\ event'.run.cancelSeen)
          => UNCHANGED <<processedResults, processedCount>>]_vars

\* C4: startProcessing called while processingActive is true changes none
\* of processedResults, processedCount, processingCancelled and
\* processingActive, and starts no batch loop.
C4_StartWhileActiveIsNoOp ==
    [][(event'.op = "startProcessing" /\ processingActive)
       => UNCHANGED <<processedResults, processedCount, processingCancelled,
                      processingActive, loops>>]_vars

\* startProcessing has just been called on a loaded file while a run was
\* active, and the run is still there
C4_Witness ==
    /\ event.op = "startProcessing"
    /\ event.run = NoRun
    /\ Truthy(currentFileContent)
    /\ processingActive
    /\ LiveCount = 1
    /\ processedCount > 0

\* C5: when a run (of a positive batchSize) finishes, stats.valid +
\* stats.invalid + the number of blank lines it skipped = stats.total.
C5_CountsAddUpAtFinish ==
    (event.finished /\ Positive(event.run.options.batchSize)) =>
        processedResults.stats.valid + processedResults.stats.invalid
            + event.run.skipped = processedResults.stats.total

\* C6: in every reachable state stats.valid + stats.invalid <= stats.total.
C6_CountsWithinTotal ==
    processedResults.stats.valid + processedResults.stats.invalid
        <= processedResults.stats.total

\* C7: a run started after a prior run ended begins from the reset
\* aggregate, so that when it has started, and when it finishes, the results
\* hold only records derived from its own input lines.
C7_OnlyOwnRecords ==
    /\ RunStarted =>
          /\ RecordsFrom(event.run.lines)
          /\ processedResults.stats.valid + processedResults.stats.invalid
                = processedCount
          /\ processedResults.stats.valid = Len(processedResults.valid)
          /\ processedResults.stats.invalid = Len(processedResults.invalid)
    /\ (event.finished /\ event.run.newest) => RecordsFrom(event.run.lines)

\* C8: while a run started with groupByState = false is live, and when it
\* finishes, byState is the empty mapping.
C8_NoGroupingNoByState ==
    /\ \A run \in Live :
          (run.newest /\ ~run.options.groupByState)
              => processedResults.byState = <<>>
    /\ (event.finished /\ event.run.newest /\ ~event.run.options.groupByState)
          => processedResults.byState = <<>>

\* C9 as stated: a run of a positive batchSize cancelled right after
\* startProcessing returned ends with processedCount < stats.total.
C9_ImmediateCancelStrictlyLess ==
    (/\ immediate.phase = "cancelled"
     /\ Positive(immediate.batchSize)
     /\ event.finished
     /\ event.run.newest)
        => processedCount < processedResults.stats.total

\* C9 amended: when a run of a positive batchSize is cancelled right after
\* startProcessing returned, then from the cancel request until the next
\* run starts, and so when the cancelled loop reaches finishProcessing in
\* between, processedCount is the number of non-blank lines among the first
\* batchSize input lines; it is less than stats.total exactly if the input
\* has more than batchSize lines or one of its first batchSize lines is blank.
C9_ImmediateCancelFirstChunk ==
    (immediate.phase = "cancelled" /\ Positive(immediate.batchSize)) =>
        LET first == SubSeq(immediate.lines, 1,
                            Min(immediate.batchSize.v, Len(immediate.lines)))
        IN /\ processedResults.stats.total = Len(immediate.lines)
           /\ processedCount = NonBlankCount(first)
           /\ processedCount < processedResults.stats.total
                <=> \/ Len(immediate.lines) > immediate.batchSize.v
                    \/ \E i \in 1..Len(first) : Trim(first[i]) = <<>>

\* a run cancelled right after its start has reached finishProcessing with
\* a blank line in its first chunk and lines left beyond it
C9_Witness ==
    /\ immediate.phase = "cancelled"
    /\ Positive(immediate.batchSize)
    /\ event.finished
    /\ event.run.newest
    /\ event.run.skipped > 0
    /\ 0 < processedCount
    /\ processedCount < processedResults.stats.total

\* C10: startProcessing with batchSize <= 0 does not start a run: it leaves
\* processingActive false, processes no chunk, leaves the aggregate as it
\* was and reports no completion.
C10_NonPositiveBatchSizeRejected ==
    [][(/\ event'.op = "startProcessing"
        /\ event'.run # NoRun
        /\ NonPositive(event'.run.options.batchSize))
       => /\ UNCHANGED <<processedResults, processedCount, loops,
                         resultsSection>>
          /\ ~processingActive'
          /\ ~event'.finished]_vars

\* stats of an aggregate into which nothing was counted
ZeroStats == [total |-> 0, valid |-> 0, invalid |-> 0, states |-> {}]

\* C11: startProcessing on the empty content, while no run is active, starts
\* a run that completes at once and reports all-zero stats (total = 0,
\* valid = 0, invalid = 0, no states).
C11_EmptyInputCompletes ==
    [][(/\ event'.op = "startProcessing"
        /\ currentFileContent = FileEmpty
        /\ ~processingActive)
       => /\ event'.finished
          /\ resultsSection'
          /\ processedResults'.stats = ZeroStats]_vars

\* the trimmed non-blank lines of lines, in their order, whose cleaned form
\* validates (valid = TRUE) or does not validate (valid = FALSE)
RECURSIVE Classified(_, _, _)
Classified(lines, removePlusOne, valid) ==
    IF lines = <<>> THEN <<>>
    ELSE LET line == Trim(Head(lines))
             rest == Classified(Tail(lines), removePlusOne, valid)
         IN IF line # <<>>
               /\ isValidUSNumber(cleanPhoneNumber(line, removePlusOne)) = valid
            THEN <<line>> \o rest ELSE rest

\* the input lines a list of records was made from
Originals(records) == [i \in 1..Len(records) |-> records[i].original]

\* C12: when a run (of a positive batchSize, not cancelled, the one started
\* last) finishes, the valid list is the subsequence of its non-blank input
\* lines whose cleaned form validates, in input order and with every
\* occurrence kept, and the invalid list that of the lines that do not.
C12_ListsAreInputSubsequences ==
    (/\ event.finished
     /\ event.run.newest
     /\ ~event.run.cancelSeen
     /\ Positive(event.run.options.batchSize))
        => /\ Originals(processedResults.valid)
                = Classified(event.run.lines, event.run.options.removePlusOne, TRUE)
           /\ Originals(processedResults.invalid)
                = Classified(event.run.lines, event.run.options.removePlusOne, FALSE)

\* C13: in every reachable state stats.valid is the length of the valid list
\* and stats.invalid the length of the invalid list.
C13_CountersMirrorLists ==
    /\ processedResults.stats.valid = Len(processedResults.valid)
    /\ processedResults.stats.invalid = Len(processedResults.invalid)

\* both lists hold records
C13_Witness ==
    /\ Len(processedResults.valid) >= 1
    /\ Len(processedResults.invalid) >= 1

\* the fraction p is at most the fraction q
FractionLeq(p, q) == p.num * q.den <= q.num * p.den

\* C14: every progress report carries a fraction within [0,1]; when the
\* report it replaces on the page was made by the same run, neither the
\* fraction nor the reported processedCount is less than in that one; and
\* the report after the last chunk of a run that was not cancelled carries
\* the fraction 1.
C14_ProgressReportsMonotone ==
    [][event'.reported =>
          /\ 0 <= progressUI'.progress.num
          /\ progressUI'.progress.num <= progressUI'.progress.den
          /\ event'.again =>
                /\ FractionLeq(progressUI.progress, progressUI'.progress)
                /\ progressUI.processed <= progressUI'.processed
          /\ (/\ ~event'.run.cancelSeen
              /\ event'.run.totalBatches.k = "num"
              /\ event'.run.batchIndex + 1 = event'.run.totalBatches.v)
                => progressUI'.progress.num = progressUI'.progress.den]_vars

\* the digits of a string, in their order
DigitsOf(s) == SelectSeq(s, IsDigit)

\* C15: cleanPhoneNumber(raw, true) = cleanPhoneNumber(raw, false) for every
\* raw string; the result consists of digits only and has at most 10 of
\* them; of 11 digits starting with "1" it is the last 10, whatever the flag.
C15_FlagMakesNoDifference ==
    /\ (cleaned[TRUE].set /\ cleaned[FALSE].set)
          => cleaned[TRUE].value = cleaned[FALSE].value
    /\ \A flag \in BOOLEAN :
          cleaned[flag].set =>
             /\ cleaned[flag].arg = number
             /\ \A i \in 1..Len(cleaned[flag].value) :
                   cleaned[flag].value[i] \in Digit
             /\ Len(cleaned[flag].value) <= 10
             /\ (Len(DigitsOf(number)) = 11 /\ Head(DigitsOf(number)) = "1")
                   => cleaned[flag].value = Tail(DigitsOf(number))
             /\ Len(DigitsOf(number)) <= 10
                   => cleaned[flag].value = DigitsOf(number)

\* both calls were made on a string of 11 digits starting with "1" that
\* also holds other characters
C15_Witness ==
    /\ cleaned[TRUE].set
    /\ cleaned[FALSE].set
    /\ Len(DigitsOf(number)) = 11
    /\ Head(DigitsOf(number)) = "1"
    /\ Len(number) > 11
    /\ Len(cleaned[FALSE].value) = 10

\* a 10-digit string whose digit groups 0-2, 3-5 and 6-8 are the same
TripletRepeat(s) ==
    /\ Len(s) = 10
    /\ \A i \in 1..10 : s[i] \in Digit
    /\ \A i \in 1..3 : s[i + 3] = s[i] /\ s[i + 6] = s[i]

\* C16: isValidUSNumber returns false for every 10-digit string whose digit
\* groups 0-2, 3-5 and 6-8 are the same 3-digit group.
C16_TripletRepeatRejected ==
    (verdict.set /\ TripletRepeat(verdict.arg)) => ~verdict.value

\* the sum of the counts, and of the percentages, of the lines of a report
RECURSIVE SumCounts(_)
SumCounts(lines) ==
    IF lines = <<>> THEN 0 ELSE Head(lines).count + SumCounts(Tail(lines))

RECURSIVE SumPercentages(_)
SumPercentages(lines) ==
    IF lines = <<>> THEN 0
    ELSE Head(lines).percentage.v + SumPercentages(Tail(lines))

\* C17 as stated: after a finished run with stats.valid > 0 the per-state
\* counts of the summary report sum to stats.valid, whatever the options.
C17_CountsSumToValid ==
    (event.finished /\ processedResults.stats.valid > 0)
        => SumCounts(generateSummaryReport(processedResults).lines)
              = processedResults.stats.valid

\* C17 amended: the per-state counts of the summary report never sum to more
\* than stats.valid; when every valid record of the aggregate was ingested
\* with groupByState on, they sum to stats.valid and, if stats.valid > 0,
\* the percentages sum to 100% within 0.1% per line; when every one was
\* ingested with groupByState off, the report lists no state.
C17_CountsSumToValidWhenGrouped ==
    LET report == generateSummaryReport(processedResults)
    IN /\ SumCounts(report.lines) <= report.valid
       /\ grouping \subseteq {TRUE} =>
             /\ SumCounts(report.lines) = report.valid
             /\ report.valid > 0 =>
                   /\ \A i \in 1..Len(report.lines) :
                         report.lines[i].percentage.k = "num"
                   /\ SumPercentages(report.lines) >= 1000 - Len(report.lines)
                   /\ SumPercentages(report.lines) <= 1000 + Len(report.lines)
       /\ grouping \subseteq {FALSE} => report.lines = <<>>

\* a run has finished with three valid records of two states, all of them
\* grouped
C17_Witness ==
    /\ event.finished
    /\ grouping = {TRUE}
    /\ processedResults.stats.valid = 3
    /\ Len(generateSummaryReport(processedResults).lines) = 2

\* the state names in ascending order, and the place of a name among them
NamesAscending == <<"California", "Minnesota", "New York", "Unknown">>
NameRank(state) == CHOOSE i \in 1..Len(NamesAscending) : NamesAscending[i] = state

\* the place of a state among the keys of byState, i.e. the order in which
\* the states were first ingested
KeyRank(byState, state) ==
    CHOOSE i \in 1..Len(byState) : byState[i].state = state

\* C18 as stated: the summary report lists the states by descending count,
\* and states of equal count by ascending name.
C18_ByCountThenName ==
    LET lines == generateSummaryReport(processedResults).lines
    IN \A i \in 1..Len(lines), j \in 1..Len(lines) :
          i < j =>
             \/ lines[i].count > lines[j].count
             \/ /\ lines[i].count = lines[j].count
                /\ NameRank(lines[i].state) < NameRank(lines[j].state)

\* C18 amended: the summary report lists every state of byState once, with
\* the number of its records, by descending count, and states of equal
\* count in the order in which they were first ingested.
C18_ByCountThenFirstIngestion ==
    LET byState == processedResults.byState
        lines == generateSummaryReport(processedResults).lines
    IN /\ Len(lines) = Len(byState)
       /\ \A i \in 1..Len(lines) :
             /\ HasState(byState, lines[i].state)
             /\ lines[i].count
                   = Len(byState[KeyRank(byState, lines[i].state)].numbers)
       /\ \A i \in 1..Len(lines), j \in 1..Len(lines) :
             i < j =>
                \/ lines[i].count > lines[j].count
                \/ /\ lines[i].count = lines[j].count
                   /\ KeyRank(byState, lines[i].state)
                         < KeyRank(byState, lines[j].state)

\* a run has finished with two states of equal count, the one ingested
\* first having the greater name
C18_Witness ==
    LET lines == generateSummaryReport(processedResults).lines
    IN /\ event.finished
       /\ Len(lines) = 2
       /\ lines[1].count = lines[2].count
       /\ NameRank(lines[1].state) > NameRank(lines[2].state)

\* the number of lines in the first k chunks of lines
ChunkLines(lines, batchSize, k) ==
    IF Positive(batchSize) THEN Min(k * batchSize.v, Len(lines)) ELSE 0

\* C19: a run has scanned whole chunks only: while its loop waits at the
\* setTimeout it has scanned the chunks up to its batchIndex, and when it
\* reaches finishProcessing, cancelled or not, the chunks before the
\* batchIndex at which it left the for-loop.
C19_WholeChunksScanned ==
    /\ \A run \in Live :
          run.scanned = ChunkLines(run.lines, run.options.batchSize,
                                   run.batchIndex + 1)
    /\ event.finished =>
          event.run.scanned = ChunkLines(event.run.lines,
                                         event.run.options.batchSize,
                                         event.run.batchIndex)

\* a cancelled run has stopped with a part of its lines scanned
C19_Witness ==
    /\ event.finished
    /\ event.run.cancelSeen
    /\ 0 < event.run.scanned
    /\ event.run.scanned < Len(event.run.lines)

\* C20: every run that starts ends: when the timers are run fairly,
\* whenever processingActive is true it becomes false again.
C20_EveryRunEnds == processingActive ~> ~processingActive

\* what (total - processed) / (processed / elapsed) yields when the rate
\* processed / elapsed is zero or 0 / 0
ZeroRateResults == {"NaN", "Infinity", "-Infinity"}

\* C21: a progress report made with processed = 0 does not carry the result
\* of a division by a zero rate as the time remaining.
C21_NoDivisionByZeroRate ==
    [][(event'.reported /\ progressUI'.processed = 0)
       => progressUI'.remaining \notin ZeroRateResults]_vars
====
